---- MODULE Spec2Model ----
(***************************************************************************)
(* AutoBridge floorplanner: the four-way ILP partition with its retry loop *)
(* (FourWayPartition.py) and the two-phase outer search (Partition.py).    *)
(*                                                                         *)
(* Units.  Usage ratios of the four-way path are integers in thousandths   *)
(* (0.70 is 700).  Solver values of binary variables are the exact         *)
(* integers 0 and 1.  Area caps of the outer search are integers in units  *)
(* of 1/1600 (0.01 is 16) and its crossing caps integers in halves (500 is *)
(* 1000), so that every midpoint (hi + lo) / 2 the searches compute on the *)
(* intervals below is an integer.                                          *)
(***************************************************************************)
EXTENDS Integers, Sequences, FiniteSets, TLC

\* ------------------------------------------------------------------ bounds
\* Vertices are 1..NumVertices; init_v2s has the keys 1..n for some n.
NumVertices == 3
\* Edge widths are WidthStep, 2*WidthStep, ..., MaxWidthSteps*WidthStep.
WidthStep == 4000
MaxWidthSteps == 2
\* A call of four_way_partition has the vertices 1..n, n <= RetryVertices.
RetryVertices == 2
\* The counter of increments saturates at MaxCount, and the log of solver
\* calls keeps the first MaxCount calls.
MaxCount == 5
\* The thresholds of a monotone partitioner divide the search interval in
\* ThresholdSteps parts.
ThresholdSteps == 8

\* ------------------------------------------------------- program constants
\* slr_0_1_width_limit, slr_1_2_width_limit, slr_2_3_width_limit defaults.
DefaultWidthLimit == 12000
\* max_usage_ratio_delta = 0.02 and hard_limit_max_usage = 2, in thousandths.
DefaultDelta == 20
DefaultHardLimit == 2000
\* partition: min_area_limit = 0.65, max_area_limit = 0.85 (units of 1/1600)
DefaultMinAreaLimit == 1040
DefaultMaxAreaLimit == 1360
\* partition: min_slr_width_limit = 10000, max_slr_width_limit = 15000
\* (halves)
DefaultMinSlrWidthLimit == 20000
DefaultMaxSlrWidthLimit == 30000
\* The searches stop when hi - lo < 0.01 (area) and hi - lo < 500 (crossing).
AreaTolerance == 16
SlrTolerance == 1000

VARIABLES
  \* inputs of the four-way path (read-only snapshots during a call)
  init_v2s, grouping_constraints, pre_assignments, all_edges, vertex_area,
  entry, ref_usage_ratio, max_usage_ratio_delta, hard_limit_max_usage,
  width_limits,
  \* state of four_way_partition / _four_way_partition
  pc, curr_max_usage, m_status, var_y1, var_y2, v2s, ret, raised,
  n_incr, probes,
  \* inputs of partition (Partition.py)
  partition_method, floorplan_opt_priority, min_area_limit, max_area_limit,
  min_slr_width_limit, max_slr_width_limit, partitioner,
  \* state of the worker and of the binary search it is running
  stage, hi, lo, fixed_limit, curr_best_v2s, curr_min_limit,
  curr_v2s, curr_limit, calls

inputs == <<init_v2s, grouping_constraints, pre_assignments, all_edges,
            vertex_area, entry, ref_usage_ratio, max_usage_ratio_delta,
            hard_limit_max_usage, width_limits>>

vars == <<init_v2s, grouping_constraints, pre_assignments, all_edges,
          vertex_area, entry, ref_usage_ratio, max_usage_ratio_delta,
          hard_limit_max_usage, width_limits,
          pc, curr_max_usage, m_status, var_y1, var_y2, v2s, ret, raised,
          n_incr, probes,
          partition_method, floorplan_opt_priority, min_area_limit,
          max_area_limit, min_slr_width_limit, max_slr_width_limit,
          partitioner,
          stage, hi, lo, fixed_limit, curr_best_v2s, curr_min_limit,
          curr_v2s, curr_limit, calls>>

four_way_vars == <<init_v2s, grouping_constraints, pre_assignments,
                   all_edges, vertex_area, ref_usage_ratio,
                   max_usage_ratio_delta, hard_limit_max_usage, width_limits,
                   curr_max_usage, m_status, var_y1, var_y2, v2s, n_incr,
                   probes>>

search_inputs == <<partition_method, floorplan_opt_priority, min_area_limit,
                   max_area_limit, min_slr_width_limit, max_slr_width_limit,
                   partitioner>>

search_vars == <<partition_method, floorplan_opt_priority, min_area_limit,
                 max_area_limit, min_slr_width_limit, max_slr_width_limit,
                 partitioner,
                 stage, hi, lo, fixed_limit, curr_best_v2s, curr_min_limit,
                 curr_v2s, curr_limit, calls>>

\* ------------------------------------------------------------ helpers
BINARY == {0, 1}

RECURSIVE SumOver(_, _)
\* xsum: the sum of f[x] over the finite set S.
SumOver(S, f) ==
  IF S = {} THEN 0
  ELSE LET x == CHOOSE e \in S : TRUE
       IN f[x] + SumOver(S \ {x}, f)

Abs(i) == IF i < 0 THEN -i ELSE i

Min(a, b) == IF a <= b THEN a ELSE b

\* The log of solver calls: the first MaxCount entries are kept.
Log(log, rec) == IF Len(log) < MaxCount THEN Append(log, rec) ELSE log

\* ------------------------------------------------------------ slot model
RESOURCE_TYPES == {"BRAM", "DSP", "FF", "LUT", "URAM"}

\* A slot is a rectangle of the device grid: rows down..up, columns left..right.
Slot(down, up, left, right) ==
  [down |-> down, up |-> up, left |-> left, right |-> right]

\* The device: four SLR rows, two column halves.
RootSlot == Slot(0, 3, 0, 1)

BottomHalf == Slot(0, 1, 0, 1)

TopHalf == Slot(2, 3, 0, 1)

containsChildSlot(self, other) ==
  /\ self.down <= other.down /\ other.up <= self.up
  /\ self.left <= other.left /\ other.right <= self.right

\* Capacity of one grid cell: the top SLR row holds half of what the others do.
CellArea(row) == IF row = 3 THEN 25 ELSE 50

getArea(slot) ==
  [r \in RESOURCE_TYPES |->
     SumOver(slot.down .. slot.up,
             [row \in slot.down .. slot.up |->
                CellArea(row) * (slot.right - slot.left + 1)])]

\* getLeafSlotsAfterPartition([Dir.horizontal, Dir.horizontal]) on the root:
\* [slot_00, slot_01, slot_10, slot_11], one SLR row each.
getLeafSlotsAfterPartition ==
  <<Slot(0, 0, 0, 1), Slot(1, 1, 0, 1), Slot(2, 2, 0, 1), Slot(3, 3, 0, 1)>>

EmptyMap == [v \in {} |-> RootSlot]

\* Python truthiness of a mapping: `if v2s` / `if not v2s`.
Truthy(mapping) == DOMAIN mapping # {}

\* ------------------------------------------------- ILP encoding primitives
get_var_of_logic_and(a, b) ==
  CHOOSE c \in BINARY : c <= a /\ c <= b /\ c >= a + b - 1

get_var_of_logic_or(a, b) ==
  CHOOSE c \in BINARY : c >= a /\ c >= b /\ c <= a + b

get_var_of_logic_not(a) == 1 - a

get_var_of_logic_xor(a, b) ==
  CHOOSE c \in BINARY : c >= a - b /\ c >= b - a /\ c <= a + b /\ c <= 2 - a - b

get_var_of_equal_zero(x) == 1 - x

get_var_of_equal_one(x) == x

\* get_all_edges(v_list): the edges of the graph on v_list.
get_all_edges(v_list) ==
  {e \in all_edges : e.src \in v_list /\ e.dst \in v_list}

getVertexAndInboundFIFOArea(v) == vertex_area[v]

\* ------------------------------------------------------ _four_way_partition
v_list == DOMAIN init_v2s

\* Mutant: the partition order holds one split, the index is y1 alone.
func_get_slot_by_idx_one_split(y1, y2) ==
  IF y1 = 0 THEN BottomHalf ELSE TopHalf

func_get_slot_by_idx(y1, y2) ==
  LET idx == y1 * 2 + y2
  IN getLeafSlotsAfterPartition[idx + 1]

\* _get_slot_to_idx: the (y1, y2) pairs, each the index of its leaf.
product_range2 == BINARY \X BINARY

\* Mutant: the choice of x and 1 - x is inverted.
choose_inverted(x, num) == IF num = 0 THEN x ELSE 1 - x

choose(x, num) == IF num = 1 THEN x ELSE 1 - x

\* prods[v] of one (y1, y2): the value the three linear constraints leave.
prods(yv1, yv2, y1, y2) ==
  CHOOSE p \in BINARY :
    /\ choose(yv1, y1) >= p
    /\ choose(yv2, y2) >= p
    /\ choose(yv1, y1) + choose(yv2, y2) - p <= 1

\* Does an assignment satisfy the area constraints at max_usage_ratio?
\* (both sides times 1000: the ratio is in thousandths)
_add_area_constraints(Y1, Y2, max_usage_ratio) ==
  \A r \in RESOURCE_TYPES : \A y \in product_range2 :
    SumOver(v_list,
            [v \in v_list |->
               prods(Y1[v], Y2[v], y[1], y[2])
                 * getVertexAndInboundFIFOArea(v)[r]]) * 1000
      <= getArea(func_get_slot_by_idx(y[1], y[2]))[r] * max_usage_ratio

is_edge_cross_slr_0_1(Y1, Y2, e) ==
  LET src_in_slr0 == get_var_of_logic_and(get_var_of_equal_zero(Y1[e.src]),
                                          get_var_of_equal_zero(Y2[e.src]))
      dst_in_slr0 == get_var_of_logic_and(get_var_of_equal_zero(Y1[e.dst]),
                                          get_var_of_equal_zero(Y2[e.dst]))
      src_not_in_slr0 == get_var_of_logic_not(src_in_slr0)
      dst_not_in_slr0 == get_var_of_logic_not(dst_in_slr0)
  IN get_var_of_logic_or(get_var_of_logic_and(src_in_slr0, dst_not_in_slr0),
                         get_var_of_logic_and(dst_in_slr0, src_not_in_slr0))

\* Mutant: the 1-2 detector compares the y2 coordinates.
is_edge_cross_slr_1_2_on_y2(Y1, Y2, e) ==
  get_var_of_logic_xor(Y2[e.src], Y2[e.dst])

is_edge_cross_slr_1_2(Y1, Y2, e) ==
  get_var_of_logic_xor(Y1[e.src], Y1[e.dst])

is_edge_cross_slr_2_3(Y1, Y2, e) ==
  LET src_in_slr3 == get_var_of_logic_and(get_var_of_equal_one(Y1[e.src]),
                                          get_var_of_equal_one(Y2[e.src]))
      dst_in_slr3 == get_var_of_logic_and(get_var_of_equal_one(Y1[e.dst]),
                                          get_var_of_equal_one(Y2[e.dst]))
      src_not_in_slr3 == get_var_of_logic_not(src_in_slr3)
      dst_not_in_slr3 == get_var_of_logic_not(dst_in_slr3)
  IN get_var_of_logic_or(get_var_of_logic_and(src_in_slr3, dst_not_in_slr3),
                         get_var_of_logic_and(dst_in_slr3, src_not_in_slr3))

_add_slr_0_1_crossing_constraint(Y1, Y2, width_limit) ==
  LET E == get_all_edges(v_list)
  IN SumOver(E, [e \in E |-> e.width * is_edge_cross_slr_0_1(Y1, Y2, e)])
       <= width_limit

_add_slr_1_2_crossing_constraint(Y1, Y2, width_limit) ==
  LET E == get_all_edges(v_list)
  IN SumOver(E, [e \in E |-> e.width * is_edge_cross_slr_1_2(Y1, Y2, e)])
       <= width_limit

_add_slr_2_3_crossing_constraint(Y1, Y2, width_limit) ==
  LET E == get_all_edges(v_list)
  IN SumOver(E, [e \in E |-> e.width * is_edge_cross_slr_2_3(Y1, Y2, e)])
       <= width_limit

\* The equalities _add_pre_assignment adds: one pair per leaf that contains
\* the expected slot; a pre-assignment no leaf contains adds nothing.
_add_pre_assignment(Y1, Y2) ==
  \A v \in DOMAIN pre_assignments : \A y \in product_range2 :
    containsChildSlot(func_get_slot_by_idx(y[1], y[2]), pre_assignments[v])
      => (Y1[v] = y[1] /\ Y2[v] = y[2])

\* assert v in v_set
pre_assignment_assert_fails ==
  \E v \in DOMAIN pre_assignments : v \notin v_list

\* Mutant: only the y1 variables of a group are equated.
_add_grouping_constraints_y1_only(Y1, Y2) ==
  \A g \in DOMAIN grouping_constraints :
    LET grouping == grouping_constraints[g]
    IN \A i \in 2 .. Len(grouping) : Y1[grouping[1]] = Y1[grouping[i]]

_add_grouping_constraints(Y1, Y2) ==
  \A g \in DOMAIN grouping_constraints :
    LET grouping == grouping_constraints[g]
    IN \A i \in 2 .. Len(grouping) :
         /\ Y1[grouping[1]] = Y1[grouping[i]]
         /\ Y2[grouping[1]] = Y2[grouping[i]]

\* v2var[grouping[0]] or v2var[grouping[i]] of a vertex that has no variable
grouping_key_error ==
  \E g \in DOMAIN grouping_constraints :
    LET grouping == grouping_constraints[g]
    IN \E i \in 2 .. Len(grouping) :
         grouping[1] \notin v_list \/ grouping[i] \notin v_list

\* The objective of _add_opt_goal at its least cost_var values.
pos_y(Y1, Y2, v) == Y1[v] * 2 + Y2[v]

_add_opt_goal(Y1, Y2) ==
  LET E == get_all_edges(v_list)
  IN SumOver(E, [e \in E |->
                   Abs(pos_y(Y1, Y2, e.src) - pos_y(Y1, Y2, e.dst)) * e.width])

\* The constraints of the model m, as _four_way_partition adds them.
Feasible(Y1, Y2, max_usage_ratio, limits) ==
  /\ _add_area_constraints(Y1, Y2, max_usage_ratio)
  /\ _add_slr_0_1_crossing_constraint(Y1, Y2, limits[1])
  /\ _add_slr_1_2_crossing_constraint(Y1, Y2, limits[2])
  /\ _add_slr_2_3_crossing_constraint(Y1, Y2, limits[3])
  /\ _add_pre_assignment(Y1, Y2)
  /\ _add_grouping_constraints(Y1, Y2)

Assignments == [v_list -> BINARY]

FeasibleSet(max_usage_ratio, limits) ==
  {Y \in Assignments \X Assignments :
     Feasible(Y[1], Y[2], max_usage_ratio, limits)}

NoAssignment == [v \in v_list |-> 0]

\* m.optimize(max_seconds): the statuses and variable values it may leave on
\* a model whose solutions are F.  OPTIMAL comes with a solution of least
\* objective, FEASIBLE (the time limit hit) with any solution, INFEASIBLE
\* only when there is none; the time limit may also leave no solution.
optimize(F) ==
  IF F = {}
  THEN {[status |-> st, y1 |-> NoAssignment, y2 |-> NoAssignment] :
          st \in {"INFEASIBLE", "NO_SOLUTION_FOUND"}}
  ELSE LET objective == [X \in F |-> _add_opt_goal(X[1], X[2])]
           best == {X \in F : \A Z \in F : objective[X] <= objective[Z]}
       IN {[status |-> "OPTIMAL", y1 |-> Y[1], y2 |-> Y[2]] : Y \in best}
          \cup {[status |-> "FEASIBLE", y1 |-> Y[1], y2 |-> Y[2]] : Y \in F}
          \cup {[status |-> "NO_SOLUTION_FOUND",
                 y1 |-> NoAssignment, y2 |-> NoAssignment]}

OptimizationStatus == {"OPTIMAL", "FEASIBLE", "NO_SOLUTION_FOUND", "INFEASIBLE"}

\* Mutant: the extraction loop skips the first vertex of v_list.
_get_results_skips_a_vertex(status, Y1, Y2) ==
  IF status \in {"OPTIMAL", "FEASIBLE"}
  THEN [v \in v_list \ {1} |-> func_get_slot_by_idx(Y1[v], Y2[v])]
  ELSE EmptyMap

_get_results(status, Y1, Y2) ==
  IF status \in {"OPTIMAL", "FEASIBLE"}
  THEN [v \in v_list |-> func_get_slot_by_idx(Y1[v], Y2[v])]
  ELSE EmptyMap

\* round(x, 2) of a ratio in thousandths (a tie goes to the even hundredth).
round2(x) ==
  LET q == x \div 10
      r == x % 10
  IN IF r < 5 THEN 10 * q
     ELSE IF r > 5 THEN 10 * (q + 1)
     ELSE IF q % 2 = 0 THEN 10 * q ELSE 10 * (q + 1)

\* ---------------------------------------------------------------- inputs
Widths == {k * WidthStep : k \in 1 .. MaxWidthSteps}

Edge(name, src, dst, width) ==
  [name |-> name, src |-> src, dst |-> dst, width |-> width]

\* The chain 1 -> 2 -> ... -> n, every edge of width w.
Chain(keys, w) ==
  {Edge(<<"chain", v>>, v, v + 1, w) : v \in {u \in keys : u + 1 \in keys}}

\* A self-loop and an edge parallel (and opposite) to the first chain edge.
Extras(keys) ==
  {Edge(<<"loop", v>>, v, v, WidthStep) : v \in keys \cap {1}}
  \cup {Edge(<<"back", v>>, v, 1, WidthStep) : v \in keys \cap {2}}

GraphChoices(keys) ==
  {Chain(keys, w) : w \in Widths}
  \cup {Chain(keys, MaxWidthSteps * WidthStep) \cup Extras(keys)}

AreaLevels == {10, 76}

AreaOf(keys, a) == [v \in keys |-> [r \in RESOURCE_TYPES |-> a]]

\* (area of every vertex in every resource, max_usage_ratio) of a direct call
AreaRatioChoices == {<<10, 700>>, <<76, 700>>, <<76, 2100>>}

KeyChoices == {1 .. n : n \in 0 .. NumVertices}

InitSlotChoices(keys) ==
  {[v \in keys |-> RootSlot],
   [v \in keys |-> IF v = 1 THEN BottomHalf ELSE RootSlot]}

GroupingChoices ==
  {<< >>, << <<1, 2>> >>, << <<1, 2>>, << >>, <<2, 3>>, <<3>> >>}

PreAssignmentChoices ==
  {EmptyMap,
   (1 :> Slot(0, 0, 0, 0)),
   (1 :> BottomHalf),
   (1 :> Slot(2, 2, 1, 1)) @@ (3 :> Slot(1, 1, 0, 1))}

WidthLimitChoices ==
  {<<DefaultWidthLimit, DefaultWidthLimit, DefaultWidthLimit>>,
   <<WidthStep, DefaultWidthLimit, 2 * WidthStep>>}

\* (ref_usage_ratio, max_usage_ratio_delta, hard_limit_max_usage)
RetryChoices ==
  {<<700, DefaultDelta, DefaultHardLimit>>,
   <<700, 4, 760>>,
   <<700, DefaultDelta, 760>>,
   <<2100, DefaultDelta, DefaultHardLimit>>}

\* (grouping_constraints, pre_assignments) of a call of four_way_partition
RetryConstraintChoices ==
  {<< << >>, EmptyMap >>,
   << << <<1, 2>> >>, EmptyMap >>,
   << << >>, (2 :> Slot(3, 3, 0, 1)) >>}

\* Python's None.
None == "None"

\* A partitioner: any callable (every call may or may not return a mapping),
\* or a monotone one that returns a mapping exactly when the area cap is at
\* least t_area and the crossing cap at least t_slr.
Partitioner(monotone, t_area, t_slr) ==
  [monotone |-> monotone, t_area |-> t_area, t_slr |-> t_slr]

AnyPartitioner == Partitioner(FALSE, 0, 0)

\* No binary search has started.
SearchInitState ==
  /\ stage = 0
  /\ hi = 0
  /\ lo = 0
  /\ fixed_limit = 0
  /\ curr_best_v2s = EmptyMap
  /\ curr_min_limit = None
  /\ curr_v2s = EmptyMap
  /\ curr_limit = None
  /\ calls = << >>

\* partition is not called.
SearchIdle ==
  /\ partition_method = "FOUR_WAY_PARTITION"
  /\ floorplan_opt_priority = "AREA_PRIORITIZED"
  /\ min_area_limit = DefaultMinAreaLimit
  /\ max_area_limit = DefaultMaxAreaLimit
  /\ min_slr_width_limit = DefaultMinSlrWidthLimit
  /\ max_slr_width_limit = DefaultMaxSlrWidthLimit
  /\ partitioner = AnyPartitioner
  /\ SearchInitState

InitState ==
  /\ SearchIdle
  /\ pc = "call"
  /\ curr_max_usage = ref_usage_ratio
  /\ m_status = "UNSOLVED"
  /\ var_y1 = NoAssignment
  /\ var_y2 = NoAssignment
  /\ v2s = EmptyMap
  /\ ret = EmptyMap
  /\ raised = "none"
  /\ n_incr = 0
  /\ probes = << >>

\* A call of _four_way_partition(init_v2s, grouping_constraints,
\* pre_assignments, slot_manager, max_usage_ratio, max_search_time, limits).
Init ==
  /\ \E keys \in KeyChoices :
       /\ init_v2s \in InitSlotChoices(keys)
       /\ all_edges \in GraphChoices(keys)
       /\ \E p \in AreaRatioChoices :
            /\ vertex_area = AreaOf(keys, p[1])
            /\ ref_usage_ratio = p[2]
  /\ grouping_constraints \in GroupingChoices
  /\ pre_assignments \in PreAssignmentChoices
  /\ entry = "_four_way_partition"
  /\ max_usage_ratio_delta = DefaultDelta
  /\ hard_limit_max_usage = DefaultHardLimit
  /\ width_limits \in WidthLimitChoices
  /\ InitState

\* A call of four_way_partition(init_v2s, slot_manager, grouping_constraints,
\* pre_assignments, ref_usage_ratio, max_search_time, max_usage_ratio_delta,
\* hard_limit_max_usage).
RetryInit ==
  /\ \E keys \in {1 .. n : n \in 0 .. RetryVertices} :
       /\ init_v2s = [v \in keys |-> RootSlot]
       /\ all_edges \in GraphChoices(keys)
       /\ vertex_area \in {AreaOf(keys, a) : a \in AreaLevels}
  /\ \E c \in RetryConstraintChoices :
       /\ grouping_constraints = c[1]
       /\ pre_assignments = c[2]
  /\ entry = "four_way_partition"
  /\ \E p \in RetryChoices :
       /\ ref_usage_ratio = p[1]
       /\ max_usage_ratio_delta = p[2]
       /\ hard_limit_max_usage = p[3]
  /\ width_limits = <<DefaultWidthLimit, DefaultWidthLimit, DefaultWidthLimit>>
  /\ InitState

\* --------------------------------------------------------------- actions
\* One call of _four_way_partition with max_usage_ratio = curr_max_usage:
\* build the model, solve, extract.  Called by four_way_partition (line 31)
\* or directly.
_four_way_partition ==
  /\ pc = "call"
  /\ IF pre_assignment_assert_fails \/ grouping_key_error
     THEN /\ raised' = IF pre_assignment_assert_fails
                       THEN "AssertionError" ELSE "KeyError"
          /\ pc' = "raised"
          /\ UNCHANGED <<m_status, var_y1, var_y2, v2s, ret, probes>>
     ELSE /\ \E o \in optimize(FeasibleSet(curr_max_usage, width_limits)) :
               /\ m_status' = o.status
               /\ var_y1' = o.y1
               /\ var_y2' = o.y2
               /\ v2s' = _get_results(o.status, o.y1, o.y2)
          /\ probes' = Log(probes, [ratio |-> curr_max_usage,
                                    ok |-> Truthy(v2s')])
          /\ IF entry = "_four_way_partition"
             THEN pc' = "done" /\ ret' = v2s'
             ELSE pc' = "test" /\ UNCHANGED ret
          /\ UNCHANGED raised
  /\ UNCHANGED <<inputs, curr_max_usage, n_incr>>
  /\ UNCHANGED search_vars

\* curr_max_usage += max_usage_ratio_delta; round(curr_max_usage, 2)
next_max_usage(curr, delta) == round2(curr + delta)

\* if curr_max_usage >= hard_limit_max_usage
failed_within_hard_limit(curr) == curr >= hard_limit_max_usage

\* four_way_partition, lines 32-40: the probe failed.
four_way_partition_failed ==
  /\ pc = "test"
  /\ ~Truthy(v2s)
  /\ curr_max_usage' = next_max_usage(curr_max_usage, max_usage_ratio_delta)
  /\ n_incr' = Min(n_incr + 1, MaxCount)
  /\ IF failed_within_hard_limit(curr_max_usage')
     THEN pc' = "done" /\ ret' = EmptyMap
     ELSE pc' = "call" /\ UNCHANGED ret
  /\ UNCHANGED <<inputs, m_status, var_y1, var_y2, v2s, raised, probes>>
  /\ UNCHANGED search_vars

\* four_way_partition, lines 42-47: the probe succeeded.
four_way_partition_break ==
  /\ pc = "test"
  /\ Truthy(v2s)
  /\ pc' = "done"
  /\ ret' = v2s
  /\ UNCHANGED <<inputs, curr_max_usage, m_status, var_y1, var_y2, v2s,
                 raised, n_incr, probes>>
  /\ UNCHANGED search_vars

Next == _four_way_partition

Spec == Init /\ [][Next]_vars

RetryNext ==
  \/ _four_way_partition
  \/ four_way_partition_failed
  \/ four_way_partition_break

RetrySpec == RetryInit /\ [][RetryNext]_vars

\* The program counter moves.  Every step of RetryNext is such a step, and
\* one is possible exactly while the loop is at the call or at the test.
Running ==
  /\ pc \in {"call", "test"}
  /\ pc' \in {"call", "test", "done", "raised"} \ {pc}

\* The loop of four_way_partition runs on: each call of the solver returns
\* (within max_search_time) and the statement after it is executed.
FairRetrySpec == RetrySpec /\ WF_pc(Running)

\* ------------------------------------------- the outer search (Partition.py)
\* The mapping the partitioner returned at its k-th call: non-empty, and
\* different from the mapping of every other call.
MappingOf(k) == [call \in {"call"} |-> k]

\* Does a call of the partitioner with these caps return a mapping?
partitioner_outcomes(area_limit, slr_limit) ==
  IF partitioner.monotone
  THEN {area_limit >= partitioner.t_area /\ slr_limit >= partitioner.t_slr}
  ELSE BOOLEAN

\* The four-way variables while partition runs.
FourWayIdle ==
  /\ init_v2s = EmptyMap
  /\ grouping_constraints = << >>
  /\ pre_assignments = EmptyMap
  /\ all_edges = {}
  /\ vertex_area = << >>
  /\ ref_usage_ratio = 700
  /\ max_usage_ratio_delta = DefaultDelta
  /\ hard_limit_max_usage = DefaultHardLimit
  /\ width_limits = <<DefaultWidthLimit, DefaultWidthLimit, DefaultWidthLimit>>
  /\ curr_max_usage = ref_usage_ratio
  /\ m_status = "UNSOLVED"
  /\ var_y1 = NoAssignment
  /\ var_y2 = NoAssignment
  /\ v2s = EmptyMap
  /\ n_incr = 0
  /\ probes = << >>

\* (min_area_limit, max_area_limit): the defaults, a narrow interval, a
\* point, and an interval with lo > hi.
AreaIntervalChoices ==
  {<<DefaultMinAreaLimit, DefaultMaxAreaLimit>>,
   <<DefaultMinAreaLimit, DefaultMinAreaLimit + 2 * AreaTolerance>>,
   <<DefaultMinAreaLimit, DefaultMinAreaLimit>>,
   <<DefaultMaxAreaLimit, DefaultMinAreaLimit>>}

\* (min_slr_width_limit, max_slr_width_limit)
SlrIntervalChoices ==
  {<<DefaultMinSlrWidthLimit, DefaultMaxSlrWidthLimit>>,
   <<DefaultMinSlrWidthLimit, DefaultMinSlrWidthLimit>>}

\* Thresholds spread over [lo, hi], and one above hi.
ThresholdChoices(low, high) ==
  {low + (k * (high - low)) \div ThresholdSteps : k \in 0 .. ThresholdSteps}
    \cup {high + 1}

\* (partition_method, floorplan_opt_priority)
MethodChoices ==
  {<<"FOUR_WAY_PARTITION", "AREA_PRIORITIZED">>,
   <<"EIGHT_WAY_PARTITION", "AREA_PRIORITIZED">>,
   <<"FOUR_WAY_PARTITION", "SLR_CROSSING_PRIORITIZED">>,
   <<"TWO_WAY_PARTITION", "AREA_PRIORITIZED">>,
   <<"FOUR_WAY_PARTITION", "LATENCY_PRIORITIZED">>}

\* A call of partition(init_v2s, slot_manager, grouping_constraints,
\* pre_assignments, min_area_limit, max_area_limit, min_slr_width_limit,
\* max_slr_width_limit, max_search_time, partition_method,
\* floorplan_opt_priority).
SearchInit ==
  /\ FourWayIdle
  /\ entry = "partition"
  /\ \E m \in MethodChoices :
       /\ partition_method = m[1]
       /\ floorplan_opt_priority = m[2]
  /\ \E a \in AreaIntervalChoices :
       /\ min_area_limit = a[1]
       /\ max_area_limit = a[2]
  /\ \E w \in SlrIntervalChoices :
       /\ min_slr_width_limit = w[1]
       /\ max_slr_width_limit = w[2]
  /\ partitioner \in
       {AnyPartitioner} \cup
       {Partitioner(TRUE, ta, ts) :
          ta \in ThresholdChoices(min_area_limit, max_area_limit),
          ts \in ThresholdChoices(min_slr_width_limit, max_slr_width_limit)}
  /\ SearchInitState
  /\ pc = "partition"
  /\ ret = EmptyMap
  /\ raised = "none"

\* Mutant: lo is not set anew, it keeps the value the previous search left.
begin_binary_search_area_limit_keeps_lo(slr_width_limit) ==
  /\ fixed_limit' = slr_width_limit
  /\ curr_best_v2s' = EmptyMap
  /\ hi' = max_area_limit
  /\ lo' = IF stage = 0 THEN min_area_limit ELSE lo
  /\ curr_min_limit' = None
  /\ IF lo' <= hi'
     THEN pc' = "area_search" /\ UNCHANGED raised
     ELSE pc' = "raised" /\ raised' = "AssertionError"

\* The prologue of _binary_search_area_limit (lines 232-239): the search is
\* called with crossing cap slr_width_limit.
begin_binary_search_area_limit(slr_width_limit) ==
  /\ fixed_limit' = slr_width_limit
  /\ curr_best_v2s' = EmptyMap
  /\ hi' = max_area_limit
  /\ lo' = min_area_limit
  /\ curr_min_limit' = None
  /\ IF lo' <= hi'
     THEN pc' = "area_search" /\ UNCHANGED raised
     ELSE pc' = "raised" /\ raised' = "AssertionError"

\* Mutant: the best mapping and its cap are not cleared at the start.
begin_binary_search_slr_crossing_limit_keeps_best(area_limit) ==
  /\ fixed_limit' = area_limit
  /\ hi' = max_slr_width_limit
  /\ lo' = min_slr_width_limit
  /\ UNCHANGED <<curr_best_v2s, curr_min_limit>>
  /\ IF lo' <= hi'
     THEN pc' = "slr_search" /\ UNCHANGED raised
     ELSE pc' = "raised" /\ raised' = "AssertionError"

\* The prologue of _binary_search_slr_crossing_limit (lines 180-187): the
\* search is called with area cap area_limit.
begin_binary_search_slr_crossing_limit(area_limit) ==
  /\ fixed_limit' = area_limit
  /\ curr_best_v2s' = EmptyMap
  /\ hi' = max_slr_width_limit
  /\ lo' = min_slr_width_limit
  /\ curr_min_limit' = None
  /\ IF lo' <= hi'
     THEN pc' = "slr_search" /\ UNCHANGED raised
     ELSE pc' = "raised" /\ raised' = "AssertionError"

\* partition: choose the partitioner and the worker, call the worker, which
\* calls its first binary search.
partition ==
  /\ pc = "partition"
  /\ IF partition_method \notin {"EIGHT_WAY_PARTITION", "FOUR_WAY_PARTITION"}
        \/ floorplan_opt_priority \notin
             {"AREA_PRIORITIZED", "SLR_CROSSING_PRIORITIZED"}
     THEN /\ pc' = "raised"
          /\ raised' = "NotImplementedError"
          /\ UNCHANGED <<stage, hi, lo, fixed_limit, curr_best_v2s,
                         curr_min_limit>>
     ELSE /\ stage' = 1
          /\ IF floorplan_opt_priority = "AREA_PRIORITIZED"
             THEN begin_binary_search_area_limit(max_slr_width_limit)
             ELSE begin_binary_search_slr_crossing_limit(max_area_limit)
  /\ UNCHANGED <<search_inputs, curr_v2s, curr_limit, calls, ret, entry>>
  /\ UNCHANGED four_way_vars

\* One record of the log of partitioner calls.
Call(search, area_limit, slr_limit, mapping) ==
  [search |-> search, area_limit |-> area_limit, slr_limit |-> slr_limit,
   v2s |-> mapping]

\* One iteration of the loop of _binary_search_area_limit (lines 240-262).
_binary_search_area_limit ==
  /\ pc = "area_search"
  /\ LET curr_area_limit == (hi + lo) \div 2
     IN \E ok \in partitioner_outcomes(curr_area_limit, fixed_limit) :
          LET probe_v2s == IF ok THEN MappingOf(Len(calls) + 1) ELSE EmptyMap
          IN /\ calls' = Append(calls, Call("area", curr_area_limit,
                                            fixed_limit, probe_v2s))
             /\ IF Truthy(probe_v2s)
                THEN /\ curr_best_v2s' = probe_v2s
                     /\ curr_min_limit' = curr_area_limit
                     /\ hi' = curr_area_limit
                     /\ UNCHANGED lo
                ELSE /\ lo' = curr_area_limit
                     /\ UNCHANGED <<curr_best_v2s, curr_min_limit, hi>>
  /\ pc' = IF hi' - lo' < AreaTolerance
           THEN "area_search_return" ELSE "area_search"
  /\ UNCHANGED <<search_inputs, stage, fixed_limit, curr_v2s, curr_limit,
                 ret, raised, entry>>
  /\ UNCHANGED four_way_vars

\* One iteration of the loop of _binary_search_slr_crossing_limit (lines
\* 188-210).
_binary_search_slr_crossing_limit ==
  /\ pc = "slr_search"
  /\ LET curr_slr_limit == (hi + lo) \div 2
     IN \E ok \in partitioner_outcomes(fixed_limit, curr_slr_limit) :
          LET probe_v2s == IF ok THEN MappingOf(Len(calls) + 1) ELSE EmptyMap
          IN /\ calls' = Append(calls, Call("slr", fixed_limit,
                                            curr_slr_limit, probe_v2s))
             /\ IF Truthy(probe_v2s)
                THEN /\ curr_best_v2s' = probe_v2s
                     /\ curr_min_limit' = curr_slr_limit
                     /\ hi' = curr_slr_limit
                     /\ UNCHANGED lo
                ELSE /\ lo' = curr_slr_limit
                     /\ UNCHANGED <<curr_best_v2s, curr_min_limit, hi>>
  /\ pc' = IF hi' - lo' < SlrTolerance
           THEN "slr_search_return" ELSE "slr_search"
  /\ UNCHANGED <<search_inputs, stage, fixed_limit, curr_v2s, curr_limit,
                 ret, raised, entry>>
  /\ UNCHANGED four_way_vars

\* Mutant: the second search is run at the loosest area cap.
area_limit_of_slr_search_is_max == max_area_limit

\* partition_area_prioritized, line 100: the area cap of the second search
\* is curr_area_limit, the cap the first search returned.
area_limit_of_slr_search == curr_min_limit

\* partition_area_prioritized, lines 78-105: the area search has returned.
partition_area_prioritized_after_area_search ==
  /\ pc = "area_search_return"
  /\ floorplan_opt_priority = "AREA_PRIORITIZED"
  /\ stage = 1
  /\ curr_v2s' = curr_best_v2s
  /\ curr_limit' = curr_min_limit
  /\ IF ~Truthy(curr_v2s')
     THEN /\ pc' = "done"
          /\ ret' = EmptyMap
          /\ UNCHANGED <<stage, hi, lo, fixed_limit, curr_best_v2s,
                         curr_min_limit, raised>>
     ELSE /\ stage' = 2
          /\ begin_binary_search_slr_crossing_limit(area_limit_of_slr_search)
          /\ UNCHANGED ret
  /\ UNCHANGED <<search_inputs, calls, entry>>
  /\ UNCHANGED four_way_vars

\* partition_area_prioritized, lines 95-111: the crossing search has
\* returned; partition returns the worker's mapping.
partition_area_prioritized_after_slr_search ==
  /\ pc = "slr_search_return"
  /\ floorplan_opt_priority = "AREA_PRIORITIZED"
  /\ stage = 2
  /\ ret' = IF ~Truthy(curr_best_v2s) THEN curr_v2s ELSE curr_best_v2s
  /\ pc' = "done"
  /\ UNCHANGED <<search_inputs, stage, hi, lo, fixed_limit, curr_best_v2s,
                 curr_min_limit, curr_v2s, curr_limit, calls, raised, entry>>
  /\ UNCHANGED four_way_vars

partition_area_prioritized ==
  \/ partition_area_prioritized_after_area_search
  \/ partition_area_prioritized_after_slr_search

\* partition_slr_crossing_prioritized, lines 130-157: the crossing search
\* has returned.
partition_slr_crossing_prioritized_after_slr_search ==
  /\ pc = "slr_search_return"
  /\ floorplan_opt_priority = "SLR_CROSSING_PRIORITIZED"
  /\ stage = 1
  /\ curr_v2s' = curr_best_v2s
  /\ curr_limit' = curr_min_limit
  /\ IF ~Truthy(curr_v2s')
     THEN /\ pc' = "done"
          /\ ret' = EmptyMap
          /\ UNCHANGED <<stage, hi, lo, fixed_limit, curr_best_v2s,
                         curr_min_limit, raised>>
     ELSE /\ stage' = 2
          /\ begin_binary_search_area_limit(curr_limit')
          /\ UNCHANGED ret
  /\ UNCHANGED <<search_inputs, calls, entry>>
  /\ UNCHANGED four_way_vars

\* partition_slr_crossing_prioritized, lines 147-163: the area search has
\* returned; partition returns the worker's mapping.
partition_slr_crossing_prioritized_after_area_search ==
  /\ pc = "area_search_return"
  /\ floorplan_opt_priority = "SLR_CROSSING_PRIORITIZED"
  /\ stage = 2
  /\ ret' = IF ~Truthy(curr_best_v2s) THEN curr_v2s ELSE curr_best_v2s
  /\ pc' = "done"
  /\ UNCHANGED <<search_inputs, stage, hi, lo, fixed_limit, curr_best_v2s,
                 curr_min_limit, curr_v2s, curr_limit, calls, raised, entry>>
  /\ UNCHANGED four_way_vars

partition_slr_crossing_prioritized ==
  \/ partition_slr_crossing_prioritized_after_slr_search
  \/ partition_slr_crossing_prioritized_after_area_search

SearchNext ==
  \/ partition
  \/ _binary_search_area_limit
  \/ _binary_search_slr_crossing_limit
  \/ partition_area_prioritized
  \/ partition_slr_crossing_prioritized

SearchSpec == SearchInit /\ [][SearchNext]_vars

\* partition is called a second time with the same arguments (the locals of
\* the first call are dead: the second call assigns each before reading
\* it).  The log of partitioner calls gets a mark between the two runs.
partition_again ==
  /\ pc = "done"
  /\ entry = "partition"
  /\ \A i \in DOMAIN calls : calls[i].search # "partition"
  /\ pc' = "partition"
  /\ calls' = Append(calls, Call("partition", 0, 0, EmptyMap))
  /\ ret' = EmptyMap
  /\ UNCHANGED <<search_inputs, stage, hi, lo, fixed_limit, curr_best_v2s,
                 curr_min_limit, curr_v2s, curr_limit, raised, entry>>
  /\ UNCHANGED four_way_vars

TwoRunsNext ==
  \/ SearchNext
  \/ partition_again

\* The calls of partition that are run twice: with a partitioner of
\* arbitrary outcomes, one of the two intervals is short.
TwoRunsInit ==
  /\ SearchInit
  /\ partitioner = AnyPartitioner =>
       \/ max_area_limit - min_area_limit <= 2 * AreaTolerance
       \/ max_slr_width_limit = min_slr_width_limit

\* Two runs of partition with the same bounds and priority.
TwoRunsSpec == TwoRunsInit /\ [][TwoRunsNext]_vars

\* Every midpoint the searches compute is an integer of the model's units.
MidpointsExact == pc \in {"area_search", "slr_search"} => (hi + lo) % 2 = 0

\* ------------------------------------ a crossing probe on the four-way path
\* _binary_search_slr_crossing_limit, lines 189-200, with four_way_partition
\* as the partitioner: the search is at a probe with bounds lo, hi and area
\* cap max_area_limit (0.85), and calls the partitioner with curr_slr_limit
\* = (hi + lo) / 2.  four_way_partition takes the area cap as
\* ref_usage_ratio; it has no parameter for a crossing cap, and its call of
\* _four_way_partition (line 31) passes no width limit, so the three limits
\* are the defaults of lines 57-59.
CrossingProbeInit ==
  /\ \E keys \in {1 .. n : n \in 0 .. RetryVertices} :
       /\ init_v2s = [v \in keys |-> RootSlot]
       /\ all_edges \in GraphChoices(keys)
       /\ vertex_area \in {AreaOf(keys, a) : a \in AreaLevels}
  /\ \E c \in RetryConstraintChoices :
       /\ grouping_constraints = c[1]
       /\ pre_assignments = c[2]
  /\ entry = "four_way_partition"
  /\ partition_method = "FOUR_WAY_PARTITION"
  /\ floorplan_opt_priority = "SLR_CROSSING_PRIORITIZED"
  /\ min_area_limit = DefaultMinAreaLimit
  /\ max_area_limit = DefaultMaxAreaLimit
  /\ \E w \in SlrIntervalChoices \cup
               {<<2 * DefaultWidthLimit, 2 * DefaultWidthLimit>>} :
       /\ min_slr_width_limit = w[1]
       /\ max_slr_width_limit = w[2]
  /\ partitioner = AnyPartitioner
  /\ stage = 1
  /\ hi = max_slr_width_limit
  /\ lo = min_slr_width_limit
  /\ fixed_limit = max_area_limit
  /\ curr_best_v2s = EmptyMap
  /\ curr_min_limit = None
  /\ curr_v2s = EmptyMap
  /\ curr_limit = None
  /\ calls = << >>
  /\ ref_usage_ratio = (fixed_limit * 1000) \div 1600
  /\ max_usage_ratio_delta = DefaultDelta
  /\ hard_limit_max_usage = DefaultHardLimit
  /\ width_limits = <<DefaultWidthLimit, DefaultWidthLimit, DefaultWidthLimit>>
  /\ pc = "call"
  /\ curr_max_usage = ref_usage_ratio
  /\ m_status = "UNSOLVED"
  /\ var_y1 = NoAssignment
  /\ var_y2 = NoAssignment
  /\ v2s = EmptyMap
  /\ ret = EmptyMap
  /\ raised = "none"
  /\ n_incr = 0
  /\ probes = << >>

CrossingProbeSpec == CrossingProbeInit /\ [][RetryNext]_vars

\* ================================================================ claims
Returned == pc = "done"

Leaves == {getLeafSlotsAfterPartition[i] : i \in 1 .. 4}

\* The SLR index 2*y1 + y2 of a leaf slot.
SlrIndex(slot) == CHOOSE i \in 0 .. 3 : getLeafSlotsAfterPartition[i + 1] = slot

\* C1: the mapping _four_way_partition returns is empty or has exactly the
\* vertices of init_v2s as keys, each mapped to one of the four leaves.
C1_Coverage ==
  Returned =>
    \/ ret = EmptyMap
    \/ /\ DOMAIN ret = DOMAIN init_v2s
       /\ \A v \in DOMAIN ret : ret[v] \in Leaves

\* Three vertices returned, spread over at least two leaves.
C1_Witness ==
  /\ Returned
  /\ DOMAIN ret = 1 .. 3
  /\ ret[1] # ret[2]
  /\ m_status = "FEASIBLE"

\* The area of the vertices a mapping puts in a leaf, in one resource.
AreaIn(mapping, leaf, r) ==
  LET S == {v \in DOMAIN mapping : mapping[v] = leaf}
  IN SumOver(S, [v \in S |-> getVertexAndInboundFIFOArea(v)[r]])

\* C2: in a non-empty mapping returned by four_way_partition, the area in
\* every leaf and resource is at most the leaf's area times the final
\* curr_max_usage.
C2_Capacity ==
  (Returned /\ Truthy(ret)) =>
    \A r \in RESOURCE_TYPES : \A leaf \in Leaves :
      AreaIn(ret, leaf, r) * 1000 <= getArea(leaf)[r] * curr_max_usage

\* A mapping returned after the ratio was raised, with a vertex in the small
\* top leaf.
C2_Witness ==
  /\ Returned /\ Truthy(ret)
  /\ entry = "four_way_partition"
  /\ curr_max_usage > ref_usage_ratio
  /\ \E v \in DOMAIN ret : SlrIndex(ret[v]) = 3 /\ vertex_area[v]["LUT"] = 76

\* Does edge e cross the boundary k | k+1 in a mapping?
Crosses(mapping, e, k) ==
  LET s == SlrIndex(mapping[e.src])
      d == SlrIndex(mapping[e.dst])
  IN (s <= k /\ d > k) \/ (d <= k /\ s > k)

CrossingWidth(mapping, k) ==
  LET E == {e \in get_all_edges(DOMAIN mapping) : Crosses(mapping, e, k)}
  IN SumOver(E, [e \in E |-> e.width])

\* C3: in a non-empty returned mapping the width crossing each boundary
\* k | k+1 is at most that boundary's limit, and the three ILP indicators
\* are 1 exactly on the edges that cross boundaries 0-1, 1-2 and 2-3.
C3_Crossing ==
  (Returned /\ Truthy(ret)) =>
    /\ \A k \in 0 .. 2 : CrossingWidth(ret, k) <= width_limits[k + 1]
    /\ \A e \in get_all_edges(v_list) :
         /\ is_edge_cross_slr_0_1(var_y1, var_y2, e) = 1 <=> Crosses(ret, e, 0)
         /\ is_edge_cross_slr_1_2(var_y1, var_y2, e) = 1 <=> Crosses(ret, e, 1)
         /\ is_edge_cross_slr_2_3(var_y1, var_y2, e) = 1 <=> Crosses(ret, e, 2)

\* An edge from SLR 1 to SLR 3 (it crosses 1-2 and 2-3, not 0-1) under
\* limits that differ per boundary.
C3_Witness ==
  /\ Returned /\ Truthy(ret)
  /\ width_limits[1] # width_limits[3]
  /\ \E e \in get_all_edges(v_list) :
       {SlrIndex(ret[e.src]), SlrIndex(ret[e.dst])} = {1, 3}

\* C4: in a non-empty returned mapping the vertices of each group share a
\* leaf, and so do the vertices of two groups that share a vertex.
C4_Grouping ==
  (Returned /\ Truthy(ret)) =>
    \A g \in DOMAIN grouping_constraints : \A h \in DOMAIN grouping_constraints :
      LET G == grouping_constraints[g]
          H == grouping_constraints[h]
          members(group) == {group[i] : i \in DOMAIN group}
      IN (g = h \/ members(G) \cap members(H) # {}) =>
           \A i \in DOMAIN G : \A j \in DOMAIN H :
             G[i] # H[j] => ret[G[i]] = ret[H[j]]

\* Two groups sharing vertex 2, all three vertices in one leaf above SLR 0.
C4_Witness ==
  /\ Returned /\ Truthy(ret)
  /\ Len(grouping_constraints) > 1
  /\ DOMAIN ret = 1 .. 3
  /\ SlrIndex(ret[1]) = 3

\* C5 (the claim as stated): in a non-empty returned mapping the leaf of
\* every pre-assigned vertex contains the slot it was pre-assigned.
C5_PreAssignment ==
  (Returned /\ Truthy(ret)) =>
    \A v \in DOMAIN pre_assignments :
      containsChildSlot(ret[v], pre_assignments[v])

\* C6 (the claim as stated): the leaf returned for a vertex is equal to or
\* inside the slot the vertex had in init_v2s.
C6_InsideIncomingSlot ==
  (Returned /\ Truthy(ret)) =>
    \A v \in DOMAIN ret : containsChildSlot(init_v2s[v], ret[v])

\* C6 (amended): the leaf returned for a vertex is one of the four leaves
\* of the slot manager's root, so it is inside init_v2s[v] whenever that
\* slot contains the root; init_v2s[v] itself is never read.
C6_InsideRoot ==
  (Returned /\ Truthy(ret)) =>
    \A v \in DOMAIN ret :
      /\ ret[v] \in Leaves
      /\ containsChildSlot(RootSlot, ret[v])
      /\ containsChildSlot(init_v2s[v], RootSlot)
           => containsChildSlot(init_v2s[v], ret[v])

\* Vertex 1 came in the bottom half and is returned in the top SLR, vertex 2
\* came in the root.
C6_Witness ==
  /\ Returned
  /\ DOMAIN ret = 1 .. 3
  /\ init_v2s[1] = BottomHalf /\ SlrIndex(ret[1]) = 3
  /\ init_v2s[2] = RootSlot

\* The log holds every solver call made so far.
LogComplete == Len(probes) < MaxCount

\* The S5 instance: ref 0.70, delta 0.02, hard limit 2.0, the ILP infeasible
\* at 0.70, 0.72 and 0.74 and feasible at 0.76.
S5 ==
  /\ ref_usage_ratio = 700
  /\ max_usage_ratio_delta = 20
  /\ hard_limit_max_usage = 2000
  /\ \A r \in {700, 720, 740} : FeasibleSet(r, width_limits) = {}
  /\ FeasibleSet(760, width_limits) # {}

\* On S5 the fourth call is the call at 0.76, and when it returns a solution
\* that mapping is returned after exactly three increments.
S5_Outcome ==
  (Returned /\ S5) =>
    /\ Len(probes) >= 4
    /\ \A i \in 1 .. 3 : ~probes[i].ok
    /\ probes[4].ratio = 760
    /\ probes[4].ok =>
         /\ Len(probes) = 4 /\ n_incr = 3 /\ curr_max_usage = 760
         /\ Truthy(ret) /\ ret = v2s

\* The mapping returned is that of the first call that returned a solution,
\* and that call is the last one.
FirstSuccessReturned ==
  (Returned /\ LogComplete /\ probes # << >>) =>
    /\ \A i \in 1 .. Len(probes) - 1 : ~probes[i].ok
    /\ Truthy(ret) <=> probes[Len(probes)].ok
    /\ Truthy(ret) =>
         /\ ret = v2s
         /\ curr_max_usage = probes[Len(probes)].ratio
    /\ Len(probes) = n_incr + (IF Truthy(ret) THEN 1 ELSE 0)

\* C9 (the claim as stated): the k-th call is made at round(ref + k*delta, 2)
\* (k = 0, 1, ...); the first call that returns a solution ends the loop
\* with its mapping; S5 ends at 0.76 after three increments; and the result
\* is empty when no call at a ratio below the hard limit returned a solution.
C9_RetryAsStated ==
  /\ \A i \in 1 .. Len(probes) :
       probes[i].ratio =
         round2(ref_usage_ratio + (i - 1) * max_usage_ratio_delta)
  /\ FirstSuccessReturned
  /\ S5_Outcome
  /\ (Returned /\ LogComplete) =>
       ((\A i \in 1 .. Len(probes) :
           probes[i].ratio < hard_limit_max_usage => ~probes[i].ok)
          => ret = EmptyMap)

\* The calls of one search that returned a mapping.
Successes(search) ==
  {i \in DOMAIN calls : calls[i].search = search /\ Truthy(calls[i].v2s)}

\* The best call of a search that had a success: the successful call with
\* the smallest cap.
BestCall(search) ==
  LET cap(i) == IF search = "area" THEN calls[i].area_limit
                ELSE calls[i].slr_limit
  IN CHOOSE i \in Successes(search) :
       \A j \in Successes(search) : cap(i) <= cap(j)

\* C7: under AREA_PRIORITIZED every area-search probe is made at crossing
\* cap max_slr_width_limit; a crossing-search probe is made only after all
\* area-search probes, only if one of them succeeded, and at the area cap
\* of the best of them; the result is empty with no crossing probe made if
\* no area probe succeeded, else the mapping of the best crossing probe, or
\* of the best area probe if no crossing probe succeeded.
C7_AreaPrioritized ==
  floorplan_opt_priority = "AREA_PRIORITIZED" =>
    /\ \A i \in DOMAIN calls :
         /\ calls[i].search = "area" =>
              /\ calls[i].slr_limit = max_slr_width_limit
              /\ \A j \in 1 .. i : calls[j].search = "area"
         /\ calls[i].search = "slr" =>
              /\ Successes("area") # {}
              /\ calls[i].area_limit = calls[BestCall("area")].area_limit
    /\ pc = "done" =>
         /\ Successes("area") = {} =>
              /\ ret = EmptyMap
              /\ \A i \in DOMAIN calls : calls[i].search = "area"
         /\ Successes("area") # {} =>
              /\ \E i \in DOMAIN calls : calls[i].search = "slr"
              /\ ret = IF Successes("slr") # {}
                       THEN calls[BestCall("slr")].v2s
                       ELSE calls[BestCall("area")].v2s
         /\ Truthy(ret) <=> Successes("area") # {}

\* The area search failed twice and succeeded, the crossing search failed
\* and succeeded, and the mapping of a crossing probe is returned.
C7_Witness ==
  /\ pc = "done"
  /\ floorplan_opt_priority = "AREA_PRIORITIZED"
  /\ Cardinality({i \in DOMAIN calls :
                    calls[i].search = "area" /\ ~Truthy(calls[i].v2s)}) >= 2
  /\ \E i \in DOMAIN calls : calls[i].search = "slr" /\ ~Truthy(calls[i].v2s)
  /\ Successes("slr") # {}
  /\ ret = calls[BestCall("slr")].v2s
  /\ calls[BestCall("area")].area_limit < max_area_limit - AreaTolerance

\* C8 (the claim as stated): when the partitioner is monotone with a
\* threshold t in [min, max] of the interval searched, the search returns a
\* mapping and a cap c with t <= c < t + tolerance (0.01 for the area
\* search, 500 for the crossing search).
C8_MinimumCap ==
  /\ (/\ pc = "area_search_return"
      /\ partitioner.monotone
      /\ fixed_limit >= partitioner.t_slr
      /\ min_area_limit <= partitioner.t_area
      /\ partitioner.t_area <= max_area_limit)
       => /\ Truthy(curr_best_v2s)
          /\ partitioner.t_area <= curr_min_limit
          /\ curr_min_limit < partitioner.t_area + AreaTolerance
  /\ (/\ pc = "slr_search_return"
      /\ partitioner.monotone
      /\ fixed_limit >= partitioner.t_area
      /\ min_slr_width_limit <= partitioner.t_slr
      /\ partitioner.t_slr <= max_slr_width_limit)
       => /\ Truthy(curr_best_v2s)
          /\ partitioner.t_slr <= curr_min_limit
          /\ curr_min_limit < partitioner.t_slr + SlrTolerance

\* C11 (the claim as stated): a call of _four_way_partition whose
\* pre_assignments name a slot that no leaf contains, or a vertex that is
\* not a key of init_v2s, ends with an error raised before the solver ran,
\* and returns no mapping.
C11_ConfigurationError ==
  (pc # "call"
     /\ \E v \in DOMAIN pre_assignments :
          \/ v \notin DOMAIN init_v2s
          \/ \A leaf \in Leaves : ~containsChildSlot(leaf, pre_assignments[v]))
    => /\ pc = "raised"
       /\ m_status = "UNSOLVED"
       /\ ret = EmptyMap

SecondRunAt ==
  IF \E i \in DOMAIN calls : calls[i].search = "partition"
  THEN CHOOSE i \in DOMAIN calls : calls[i].search = "partition"
  ELSE Len(calls) + 1

FirstRun == SubSeq(calls, 1, SecondRunAt - 1)

SecondRun == SubSeq(calls, SecondRunAt + 1, Len(calls))

\* The (area_cap, crossing_cap) pair of a partitioner call.
Caps(c) == <<c.area_limit, c.slr_limit>>

\* C13 (the claim as stated): two runs of partition with the same bounds and
\* priority probe the same sequence of (area_cap, crossing_cap) pairs.
C13_SameProbes ==
  /\ \A i \in DOMAIN FirstRun \cap DOMAIN SecondRun :
       Caps(FirstRun[i]) = Caps(SecondRun[i])
  /\ (pc = "done" /\ SecondRunAt <= Len(calls)) =>
       Len(FirstRun) = Len(SecondRun)

\* Do two runs agree on the outcomes of their first n probes?
SameOutcomes(n) ==
  \A j \in 1 .. n : Truthy(FirstRun[j].v2s) = Truthy(SecondRun[j].v2s)

\* C13 (amended): the first probe of a run is fixed by the bounds and the
\* priority, and every later probe by the bounds, the priority and the
\* outcomes of the probes before it: two runs with the same bounds and
\* priority probe the same pairs as long as their earlier probes had the
\* same outcomes, and when all outcomes agree the whole sequences are equal.
C13_SameProbesGivenOutcomes ==
  /\ \A i \in DOMAIN FirstRun \cap DOMAIN SecondRun :
       SameOutcomes(i - 1) => Caps(FirstRun[i]) = Caps(SecondRun[i])
  /\ FirstRun # << >> =>
       Caps(FirstRun[1]) =
         IF floorplan_opt_priority = "AREA_PRIORITIZED"
         THEN <<(min_area_limit + max_area_limit) \div 2, max_slr_width_limit>>
         ELSE <<max_area_limit,
                (min_slr_width_limit + max_slr_width_limit) \div 2>>
  /\ (pc = "done" /\ SecondRunAt <= Len(calls)
        /\ SameOutcomes(Min(Len(FirstRun), Len(SecondRun)))) =>
       Len(FirstRun) = Len(SecondRun)

\* Two complete runs whose second probes differ because their first probes
\* had different outcomes, and whose later run made at least three probes.
C13_Witness ==
  /\ pc = "done"
  /\ Len(FirstRun) >= 2
  /\ Len(SecondRun) >= 3
  /\ Truthy(FirstRun[1].v2s) # Truthy(SecondRun[1].v2s)
  /\ Caps(FirstRun[2]) # Caps(SecondRun[2])

\* A binary search is running or has just returned.
InSearch ==
  pc \in {"area_search", "area_search_return",
          "slr_search", "slr_search_return"}

\* The search that is running: "area" or "slr".
SearchKind ==
  IF pc \in {"area_search", "area_search_return"} THEN "area" ELSE "slr"

\* The cap a call of the running search probed.
ProbedCap(i) ==
  IF SearchKind = "area" THEN calls[i].area_limit ELSE calls[i].slr_limit

\* C14: in both binary searches, for any outcomes of the probes, min <= lo
\* <= hi <= max holds from the start and after every probe, and the pair
\* (curr_best_v2s, cap) the search holds and returns is (empty, None) when
\* no probe succeeded, and else the mapping and cap of the last successful
\* probe, that cap being the smallest successful cap and equal to hi.
C14_SearchInvariants ==
  InSearch =>
    /\ IF SearchKind = "area"
       THEN min_area_limit <= lo /\ hi <= max_area_limit
       ELSE min_slr_width_limit <= lo /\ hi <= max_slr_width_limit
    /\ lo <= hi
    /\ LET S == Successes(SearchKind)
       IN IF S = {}
          THEN curr_best_v2s = EmptyMap /\ curr_min_limit = None
          ELSE LET last == CHOOSE i \in S : \A j \in S : j <= i
               IN /\ curr_best_v2s = calls[last].v2s
                  /\ curr_min_limit = ProbedCap(last)
                  /\ \A j \in S : curr_min_limit <= ProbedCap(j)
                  /\ curr_min_limit = hi

\* The area search returns after a success, a later failure and a later
\* success, under a partitioner of arbitrary outcomes.
C14_Witness ==
  /\ pc = "area_search_return"
  /\ ~partitioner.monotone
  /\ lo > min_area_limit
  /\ \E i, j, k \in DOMAIN calls :
       /\ i < j /\ j < k
       /\ Truthy(calls[i].v2s)
       /\ ~Truthy(calls[j].v2s)
       /\ Truthy(calls[k].v2s)
       /\ curr_best_v2s = calls[k].v2s

\* C10 (the claim as stated): the retry loop terminates: it returns or
\* raises.
C10_Terminates == <>(pc \in {"done", "raised"})

====
